---- MODULE Spec2Model ----
(***************************************************************************)
(* QR Tracking System (src/app.py): the request handlers that read and     *)
(* write the SQLite tables campaigns, physical_devices and scans.          *)
(*                                                                         *)
(* Every handler is an "async def" that makes its SQLite calls             *)
(* synchronously, so a handler runs from its first statement to its return *)
(* without yielding; one action models one request.                        *)
(*                                                                         *)
(* Values.  A Python str / SQL TEXT is a TLA+ string and Python None / SQL *)
(* NULL in such a position is the string None.  A nullable number, bool or *)
(* timestamp is Null (the empty tuple) or Some(v).  An ISO-8601 string is  *)
(* the record [secs, suffix]: its instant in seconds and its zone          *)
(* designator ("" for none, "Z", "+00:00").                                *)
(***************************************************************************)
EXTENDS Integers, Sequences, FiniteSets, TLC

\* Number of requests served in a behaviour, and the last reading of the clock.
MaxRequests == 2
MaxClock == 1

None == "None"
Null == << >>
Some(v) == << v >>

\* Python truthiness of an Optional[str]: None and "" are falsy.
Truthy(s) == s # None /\ s # ""

IsoString(secs, suffix) == [secs |-> secs, suffix |-> suffix]

----------------------------------------------------------------------------
(* Inputs of the requests.                                                 *)

CampaignCodes == {"promo_verano_2024", "black_friday_tech"}
Clients == {"Nike"}
Destinations == {"https://instagram.com/nike", "https://instagram.com/cocacola"}
DeviceIds == {"pantalla_food_court", "kiosco_metro_plaza_vzla"}
DeviceNames == {"Pantalla Food Court"}

\* uuid.uuid4() values, in the order the process draws them.
UUIDS == << "a3f1", "77c2", "e09b", "51d4", "c6a8", "0b9e" >>

\* Readings of the browser's clock when the beacon is sent.
CompletionSecs == {4}

VARIABLES
    campaigns,          \* rows of table campaigns
    physical_devices,   \* rows of table physical_devices
    scans,              \* rows of table scans
    sqlite_sequence,    \* AUTOINCREMENT: largest rowid handed out, per table
    uuid_count,         \* number of uuid4() values drawn
    clock,              \* the server's clock, in seconds
    requests,           \* number of requests served
    last,               \* the last request and its response
    loop                \* the event loop: its coroutines and the one running

vars == << campaigns, physical_devices, scans, sqlite_sequence, uuid_count,
           clock, requests, last, loop >>

tables == << campaigns, physical_devices, scans, sqlite_sequence >>

----------------------------------------------------------------------------
(* Schema (create_basic_schema) and the example data of __main__.          *)

CampaignRow(id, code, client, destination, description, active, now) ==
    [id |-> id, campaign_code |-> code, client |-> client,
     destination |-> destination, description |-> description,
     active |-> active, created_at |-> now, updated_at |-> now]

DeviceRow(id, device_id, device_name, device_type, location, venue, description, active, now) ==
    [id |-> id, device_id |-> device_id, device_name |-> device_name,
     device_type |-> device_type, location |-> location, venue |-> venue,
     description |-> description, active |-> active,
     created_at |-> now, updated_at |-> now]

\* A scan row that is born completed.
ScanRowCompleted(id, code, client, destination, device_id, device_name, location, venue, session_id, scan_timestamp) ==
    [id |-> id, campaign_code |-> code, client |-> client,
     destination |-> destination, device_id |-> device_id,
     device_name |-> device_name, location |-> location, venue |-> venue,
     session_id |-> session_id, scan_timestamp |-> scan_timestamp,
     redirect_completed |-> 1, redirect_timestamp |-> Null,
     duration_seconds |-> Null]

\* The columns of scans that /track does not name take their defaults:
\* redirect_completed 0, redirect_timestamp and duration_seconds NULL.
ScanRow(id, code, client, destination, device_id, device_name, location, venue, session_id, scan_timestamp) ==
    [id |-> id, campaign_code |-> code, client |-> client,
     destination |-> destination, device_id |-> device_id,
     device_name |-> device_name, location |-> location, venue |-> venue,
     session_id |-> session_id, scan_timestamp |-> scan_timestamp,
     redirect_completed |-> 0, redirect_timestamp |-> Null,
     duration_seconds |-> Null]

example_campaigns ==
    { CampaignRow(1, "promo_verano_2024", "Nike",
                  "https://instagram.com/nike", "Promoción de verano 2024", 1, 0),
      CampaignRow(2, "black_friday_tech", "Samsung",
                  "https://www.samsung.com/ve/promociones",
                  "Black Friday Tech 2024", 1, 0),
      CampaignRow(3, "nuevos_productos", "Coca Cola",
                  "https://instagram.com/cocacola",
                  "Lanzamiento nuevos productos", 1, 0) }

example_devices ==
    { DeviceRow(1, "totem_centro_comercial_01", "Totem Principal Entrada",
                "Totem Interactivo", "Entrada Principal - Planta Baja",
                "Centro Comercial Plaza Venezuela", None, 1, 0),
      DeviceRow(2, "pantalla_food_court", "Pantalla Food Court",
                "Pantalla LED", "Área de Comidas",
                "Centro Comercial Plaza Venezuela", None, 1, 0),
      DeviceRow(3, "kiosco_metro_plaza_vzla", "Kiosco Metro Plaza Venezuela",
                "Kiosco Digital", "Estación Metro Plaza Venezuela",
                "Metro de Caracas", None, 1, 0) }

\* A scan of promo_verano_2024 that an earlier run of the server recorded.
earlier_scan ==
    ScanRow(1, "promo_verano_2024", "", "https://instagram.com/nike",
            "pantalla_food_court", "", "", "", "f2d0", IsoString(0, ""))

NoRequest == [op |-> "startup", req |-> [x |-> None], resp |-> [status |-> 0]]

\* The database file outlives the process.  It is fresh (init_database made
\* the empty tables), or holds the example rows that __main__ inserts into an
\* empty campaigns table, or those and a scan recorded since.
Databases ==
    { [campaigns |-> {}, physical_devices |-> {}, scans |-> {}],
      [campaigns |-> example_campaigns, physical_devices |-> example_devices,
       scans |-> {}],
      [campaigns |-> example_campaigns, physical_devices |-> example_devices,
       scans |-> {earlier_scan}] }

\* The event loop with no request in flight.
IdleLoop == [running |-> 0, tasks |-> << >>, before |-> {}]

Init ==
    /\ loop = IdleLoop
    /\ \E db \in Databases :
          /\ campaigns = db.campaigns
          /\ physical_devices = db.physical_devices
          /\ scans = db.scans
          /\ sqlite_sequence =
                [campaigns |-> Cardinality(db.campaigns),
                 physical_devices |-> Cardinality(db.physical_devices),
                 scans |-> Cardinality(db.scans)]
    /\ uuid_count = 0
    /\ clock = 0
    /\ requests = 0
    /\ last = NoRequest

\* What every handler does besides its own work: it is one more request, and
\* its response is what the client sees.
Served(op, req, resp) ==
    /\ requests < MaxRequests
    /\ requests' = requests + 1
    /\ last' = [op |-> op, req |-> req, resp |-> resp]
    /\ clock' = clock
    /\ loop' = loop

Json(success, text) == [status |-> 200, success |-> success, text |-> text]

Tick ==
    /\ clock < MaxClock
    /\ clock' = clock + 1
    /\ UNCHANGED << tables, uuid_count, requests, last, loop >>

----------------------------------------------------------------------------
(* GET /track                                                              *)

\* SELECT destination FROM campaigns WHERE campaign_code = ? ; fetchone()
LookupDestination(code) ==
    IF \E c \in campaigns : c.campaign_code = code
    THEN Some((CHOOSE c \in campaigns : c.campaign_code = code).destination)
    ELSE Null

\* A resolution that never consults campaigns.
ResolveDestinationNoLookup(campaign_code, destination) ==
    IF ~Truthy(destination) THEN "https://google.com/search?q=" \o campaign_code
    ELSE destination

\* The destination of the scan: the request's own, else the campaign's, else
\* a search for the campaign code.
ResolveDestination(campaign_code, destination) ==
    LET result == IF ~Truthy(destination) /\ Truthy(campaign_code)
                  THEN LookupDestination(campaign_code) ELSE Null
        found == IF ~Truthy(destination) /\ result # Null
                 THEN result[1] ELSE destination
    IN  IF ~Truthy(found) THEN "https://google.com/search?q=" \o campaign_code
        ELSE found

\* The page /track answers with: the meta refresh, the manual link, the
\* script's window.location.href and the body of the beacon it will post.
RedirectPage(destination, session_id, scan_id) ==
    [status |-> 200, meta_refresh |-> destination, href |-> destination,
     location_href |-> destination,
     beacon |-> [session_id |-> session_id, scan_id |-> scan_id]]

\* A test for an absent parameter only.
MissingCampaignNoneOnly(campaign) == campaign = None

\* campaign_code = params.get("campaign"); if not campaign_code: raise 400
MissingCampaign(campaign) == ~Truthy(campaign)

track_qr_scan(campaign, destination, device_id) ==
    LET req == [campaign |-> campaign, destination |-> destination,
                device_id |-> device_id]
    IN
    IF MissingCampaign(campaign)
    THEN /\ Served("track", req,
                   [status |-> 400, detail |-> "Parámetro 'campaign' requerido"])
         /\ UNCHANGED << tables, uuid_count >>
    ELSE LET session_id == UUIDS[uuid_count + 1]
             dest == ResolveDestination(campaign, destination)
             scan_id == sqlite_sequence.scans + 1
             row == ScanRow(scan_id, campaign, "", dest, device_id, "", "", "",
                            session_id, IsoString(clock, ""))
         IN  /\ uuid_count' = uuid_count + 1
             /\ scans' = scans \cup {row}
             /\ sqlite_sequence' = [sqlite_sequence EXCEPT !.scans = scan_id]
             /\ UNCHANGED << campaigns, physical_devices >>
             /\ Served("track", req, RedirectPage(dest, session_id, scan_id))

----------------------------------------------------------------------------
(* POST /api/track/complete                                                *)

\* str.replace("Z", "+00:00") on an ISO string.
ReplaceZ(iso) == IF iso.suffix = "Z" THEN IsoString(iso.secs, "+00:00") ELSE iso

\* datetime.fromisoformat: a string with an offset parses to an aware
\* datetime, one without to a naive datetime; a bare "Z" is not accepted.
fromisoformat(iso) ==
    CASE iso.suffix = "+00:00" ->
            [ok |-> TRUE, secs |-> iso.secs, aware |-> TRUE, error |-> ""]
      [] iso.suffix = "" ->
            [ok |-> TRUE, secs |-> iso.secs, aware |-> FALSE, error |-> ""]
      [] OTHER ->
            [ok |-> FALSE, secs |-> 0, aware |-> FALSE,
             error |-> "Invalid isoformat string"]

\* The difference taken the other way round.
total_seconds_reversed(start_time, end_time) ==
    IF ~start_time.ok THEN [ok |-> FALSE, value |-> 0, error |-> start_time.error]
    ELSE IF ~end_time.ok THEN [ok |-> FALSE, value |-> 0, error |-> end_time.error]
    ELSE IF start_time.aware # end_time.aware
    THEN [ok |-> FALSE, value |-> 0,
          error |-> "can't subtract offset-naive and offset-aware datetimes"]
    ELSE [ok |-> TRUE, value |-> start_time.secs - end_time.secs, error |-> ""]

\* (end_time - start_time).total_seconds(); datetime.__sub__ raises TypeError
\* when exactly one operand carries a time zone.
total_seconds(start_time, end_time) ==
    IF ~start_time.ok THEN [ok |-> FALSE, value |-> 0, error |-> start_time.error]
    ELSE IF ~end_time.ok THEN [ok |-> FALSE, value |-> 0, error |-> end_time.error]
    ELSE IF start_time.aware # end_time.aware
    THEN [ok |-> FALSE, value |-> 0,
          error |-> "can't subtract offset-naive and offset-aware datetimes"]
    ELSE [ok |-> TRUE, value |-> end_time.secs - start_time.secs, error |-> ""]

\* A WHERE clause on the id alone.
MatchesScanById(s, scan_id, session_id) == s.id = scan_id

\* WHERE id = ? AND session_id = ?
MatchesScan(s, scan_id, session_id) ==
    s.id = scan_id /\ s.session_id = session_id

\* session_id: Optional[str]; scan_id: Null or Some(int);
\* completion_time: Null or Some(ISO string).
complete_tracking(session_id, scan_id, completion_time) ==
    LET req == [session_id |-> session_id, scan_id |-> scan_id,
                completion_time |-> completion_time]
    IN
    IF ~Truthy(session_id) \/ scan_id = Null \/ scan_id = Some(0)
    THEN /\ Served("complete", req, Json(FALSE, "session_id y scan_id requeridos"))
         /\ UNCHANGED << tables, uuid_count >>
    ELSE LET matching == {s \in scans : MatchesScan(s, scan_id[1], session_id)}
             computed ==
                 IF matching # {} /\ completion_time # Null
                 THEN LET result == CHOOSE s \in matching : TRUE
                          d == total_seconds(
                                 fromisoformat(ReplaceZ(result.scan_timestamp)),
                                 fromisoformat(ReplaceZ(completion_time[1])))
                      IN  [ok |-> d.ok, error |-> d.error,
                           duration |-> IF d.ok THEN Some(d.value) ELSE Null]
                 ELSE [ok |-> TRUE, error |-> "", duration |-> Null]
         IN  IF ~computed.ok
             THEN \* the exception leaves the with block before the UPDATE
                  /\ Served("complete", req, Json(FALSE, computed.error))
                  /\ UNCHANGED << tables, uuid_count >>
             ELSE /\ scans' = {IF s \in matching
                               THEN [s EXCEPT !.redirect_completed = 1,
                                              !.redirect_timestamp = Some(clock),
                                              !.duration_seconds = computed.duration]
                               ELSE s : s \in scans}
                  /\ UNCHANGED << campaigns, physical_devices, sqlite_sequence,
                                  uuid_count >>
                  /\ Served("complete", req, Json(TRUE, "Tracking completado"))

\* The beacon a client may post: the ids of a page /track returned or others,
\* and a completion_time as toISOString writes it ("Z"), without a zone, or absent.
BeaconSessionIds == {None, "f2d0", UUIDS[1]}
BeaconScanIds == {Null} \cup {Some(i) : i \in 1..2}
BeaconTimes ==
    {Null} \cup {Some(IsoString(t, z)) : t \in CompletionSecs, z \in {"", "Z"}}

----------------------------------------------------------------------------
(* /api/campaigns                                                          *)

CampaignExists(code) == \E c \in campaigns : c.campaign_code = code

\* Python bool bound to a BOOLEAN column.
Bit(b) == IF b THEN 1 ELSE 0

\* A campaign_code column without its UNIQUE constraint.
InsertCampaignNeverFails(code) == FALSE

\* INSERT INTO campaigns: the UNIQUE constraint on campaign_code raises
\* sqlite3.IntegrityError when the code is taken.
InsertCampaignFails(code) == CampaignExists(code)

create_campaign(code, client, destination, description, active) ==
    LET req == [campaign_code |-> code, client |-> client,
                destination |-> destination, description |-> description,
                active |-> active]
    IN
    IF InsertCampaignFails(code)
    THEN /\ Served("create_campaign", req,
                   Json(FALSE, "El código de campaña ya existe"))
         /\ UNCHANGED << tables, uuid_count >>
    ELSE LET campaign_id == sqlite_sequence.campaigns + 1
             new_campaign == CampaignRow(campaign_id, code, client, destination,
                                         description, Bit(active), clock)
         IN  /\ campaigns' = campaigns \cup {new_campaign}
             /\ sqlite_sequence' =
                    [sqlite_sequence EXCEPT !.campaigns = campaign_id]
             /\ UNCHANGED << physical_devices, scans, uuid_count >>
             /\ Served("create_campaign", req,
                       [status |-> 200, success |-> TRUE,
                        text |-> "Campaña creada exitosamente",
                        campaign |-> new_campaign])

\* A SET list built from the fields that are truthy.
ApplyCampaignUpdateTruthy(c, u) ==
    [c EXCEPT !.client = IF Truthy(u.client) THEN u.client ELSE @,
              !.destination = IF Truthy(u.destination) THEN u.destination ELSE @,
              !.description = IF Truthy(u.description) THEN u.description ELSE @,
              !.active = IF u.active = Some(TRUE) THEN 1 ELSE @,
              !.updated_at = clock]

\* The SET list update_campaign builds from the fields that are not None.
ApplyCampaignUpdate(c, u) ==
    [c EXCEPT !.client = IF u.client # None THEN u.client ELSE @,
              !.destination = IF u.destination # None THEN u.destination ELSE @,
              !.description = IF u.description # None THEN u.description ELSE @,
              !.active = IF u.active # Null THEN Bit(u.active[1]) ELSE @,
              !.updated_at = clock]

NoCampaignFields(u) ==
    u.client = None /\ u.destination = None /\ u.description = None
    /\ u.active = Null

update_campaign(code, u) ==
    LET req == [campaign_code |-> code, campaign_update |-> u]
    IN
    IF ~CampaignExists(code)
    THEN /\ Served("update_campaign", req, Json(FALSE, "Campaña no encontrada"))
         /\ UNCHANGED << tables, uuid_count >>
    ELSE IF NoCampaignFields(u)
    THEN /\ Served("update_campaign", req,
                   Json(FALSE, "No hay campos para actualizar"))
         /\ UNCHANGED << tables, uuid_count >>
    ELSE /\ campaigns' = {IF c.campaign_code = code
                          THEN ApplyCampaignUpdate(c, u) ELSE c : c \in campaigns}
         /\ UNCHANGED << physical_devices, scans, sqlite_sequence, uuid_count >>
         /\ Served("update_campaign", req,
                   Json(TRUE, "Campaña actualizada exitosamente"))

\* An UPDATE that touches updated_at only.
DeactivatedKeepsActive(c) == [c EXCEPT !.updated_at = clock]

\* UPDATE campaigns SET active = 0, updated_at = CURRENT_TIMESTAMP WHERE ...
Deactivated(c) == [c EXCEPT !.active = 0, !.updated_at = clock]

\* DELETE /api/campaigns/{campaign_code}
delete_campaign(code) ==
    LET req == [campaign_code |-> code]
        rowcount == Cardinality({c \in campaigns : c.campaign_code = code})
    IN
    IF rowcount = 0
    THEN /\ Served("delete_campaign", req, Json(FALSE, "Campaña no encontrada"))
         /\ UNCHANGED << tables, uuid_count >>
    ELSE /\ campaigns' = {IF c.campaign_code = code THEN Deactivated(c) ELSE c
                          : c \in campaigns}
         /\ UNCHANGED << physical_devices, scans, sqlite_sequence, uuid_count >>
         /\ Served("delete_campaign", req,
                   Json(TRUE, "Campaña eliminada exitosamente"))

\* PATCH /api/campaigns/{campaign_code}/deactivate: the function registered
\* for the route consists of its docstring, so it returns None (JSON null).
deactivate_campaign(code) ==
    /\ Served("deactivate_campaign", [campaign_code |-> code],
              [status |-> 200, body |-> "null"])
    /\ UNCHANGED << tables, uuid_count >>

\* A count without its WHERE clause.
CountAllScans(code) == Cardinality(scans)

\* SELECT COUNT(*) FROM scans WHERE campaign_code = ?
CountScans(code) == Cardinality({s \in scans : s.campaign_code = code})

\* DELETE /api/campaigns/{campaign_code}/delete-permanently
delete_campaign_permanently(code) ==
    LET req == [campaign_code |-> code]
    IN
    IF ~CampaignExists(code)
    THEN /\ Served("delete_campaign_permanently", req,
                   Json(FALSE, "Campaña no encontrada"))
         /\ UNCHANGED << tables, uuid_count >>
    ELSE LET campaign_info == CHOOSE c \in campaigns : c.campaign_code = code
             scans_count == CountScans(code)
         IN  /\ campaigns' = {c \in campaigns : c.campaign_code # code}
             /\ UNCHANGED << physical_devices, scans, sqlite_sequence,
                             uuid_count >>
             /\ Served("delete_campaign_permanently", req,
                       [status |-> 200, success |-> TRUE,
                        text |-> "Campaña eliminada permanentemente",
                        deleted_campaign |-> campaign_info,
                        affected_scans |-> scans_count])

\* CampaignUpdate bodies: each field absent (None / Null) or given.
CampaignUpdates ==
    [client : {None, "Adidas"},
     destination : {None, "", "https://instagram.com/cocacola"},
     description : {None},
     active : {Null, Some(TRUE), Some(FALSE)}]
    \cup
    { [client |-> None, destination |-> None,
       description |-> "Campaña pausada", active |-> Null],
      [client |-> "Adidas", destination |-> None,
       description |-> "", active |-> Some(FALSE)] }

----------------------------------------------------------------------------
(* /api/devices                                                            *)

DeviceExists(device_id) == \E d \in physical_devices : d.device_id = device_id

\* A device_id column without its UNIQUE constraint.
InsertDeviceNeverFails(device_id) == FALSE

\* INSERT INTO physical_devices: the UNIQUE constraint on device_id raises
\* sqlite3.IntegrityError when the id is taken.
InsertDeviceFails(device_id) == DeviceExists(device_id)

create_device(device_id, device_name, active) ==
    LET req == [device_id |-> device_id, device_name |-> device_name,
                active |-> active]
    IN
    IF InsertDeviceFails(device_id)
    THEN /\ Served("create_device", req,
                   Json(FALSE, "El ID del dispositivo ya existe"))
         /\ UNCHANGED << tables, uuid_count >>
    ELSE LET id == sqlite_sequence.physical_devices + 1
             new_device == DeviceRow(id, device_id, device_name, None, None,
                                     None, None, Bit(active), clock)
         IN  /\ physical_devices' = physical_devices \cup {new_device}
             /\ sqlite_sequence' =
                    [sqlite_sequence EXCEPT !.physical_devices = id]
             /\ UNCHANGED << campaigns, scans, uuid_count >>
             /\ Served("create_device", req,
                       [status |-> 200, success |-> TRUE,
                        text |-> "Dispositivo creado exitosamente",
                        device |-> new_device])

\* The SET list update_device builds from the fields that are not None.
ApplyDeviceUpdate(d, u) ==
    [d EXCEPT !.device_name = IF u.device_name # None THEN u.device_name ELSE @,
              !.device_type = IF u.device_type # None THEN u.device_type ELSE @,
              !.location = IF u.location # None THEN u.location ELSE @,
              !.venue = IF u.venue # None THEN u.venue ELSE @,
              !.description = IF u.description # None THEN u.description ELSE @,
              !.active = IF u.active # Null THEN Bit(u.active[1]) ELSE @,
              !.updated_at = clock]

NoDeviceFields(u) ==
    /\ u.device_name = None /\ u.device_type = None /\ u.location = None
    /\ u.venue = None /\ u.description = None /\ u.active = Null

update_device(device_id, u) ==
    LET req == [device_id |-> device_id, device_update |-> u]
    IN
    IF ~DeviceExists(device_id)
    THEN /\ Served("update_device", req, Json(FALSE, "Dispositivo no encontrado"))
         /\ UNCHANGED << tables, uuid_count >>
    ELSE IF NoDeviceFields(u)
    THEN /\ Served("update_device", req,
                   Json(FALSE, "No hay campos para actualizar"))
         /\ UNCHANGED << tables, uuid_count >>
    ELSE /\ physical_devices' =
                {IF d.device_id = device_id THEN ApplyDeviceUpdate(d, u) ELSE d
                 : d \in physical_devices}
         /\ UNCHANGED << campaigns, scans, sqlite_sequence, uuid_count >>
         /\ Served("update_device", req,
                   Json(TRUE, "Dispositivo actualizado exitosamente"))

\* GET /api/devices/{device_id}
get_device(device_id) ==
    LET req == [device_id |-> device_id]
    IN
    /\ UNCHANGED << tables, uuid_count >>
    /\ IF ~DeviceExists(device_id)
       THEN Served("get_device", req, Json(FALSE, "Dispositivo no encontrado"))
       ELSE Served("get_device", req,
                   [status |-> 200, success |-> TRUE, text |-> "",
                    device |-> CHOOSE d \in physical_devices :
                                   d.device_id = device_id])

\* An UPDATE that pauses the device in place of the DELETE.
DevicesAfterSoftDelete(device_id) ==
    {IF d.device_id = device_id THEN [d EXCEPT !.active = 0] ELSE d
     : d \in physical_devices}

\* DELETE FROM physical_devices WHERE device_id = ?
DevicesAfterDelete(device_id) ==
    {d \in physical_devices : d.device_id # device_id}

\* DELETE /api/devices/{device_id}; both sides of the unresolved merge delete
\* the row after the same existence check.
delete_device(device_id) ==
    LET req == [device_id |-> device_id]
    IN
    IF ~DeviceExists(device_id)
    THEN /\ Served("delete_device", req, Json(FALSE, "Dispositivo no encontrado"))
         /\ UNCHANGED << tables, uuid_count >>
    ELSE /\ physical_devices' = DevicesAfterDelete(device_id)
         /\ UNCHANGED << campaigns, scans, sqlite_sequence, uuid_count >>
         /\ Served("delete_device", req,
                   Json(TRUE, "Dispositivo eliminado permanentemente"))

\* A toggle that can only pause.
ToggledAlwaysPaused(current_active) == 0

\* new_active = 0 if current_active == 1 else 1
Toggled(current_active) == IF current_active = 1 THEN 0 ELSE 1

\* PATCH /api/devices/{device_id}/toggle-status
toggle_device_status(device_id) ==
    LET req == [device_id |-> device_id]
    IN
    IF ~DeviceExists(device_id)
    THEN /\ Served("toggle_device_status", req,
                   Json(FALSE, "Dispositivo no encontrado"))
         /\ UNCHANGED << tables, uuid_count >>
    ELSE LET result == CHOOSE d \in physical_devices : d.device_id = device_id
             new_active == Toggled(result.active)
         IN  /\ physical_devices' =
                    {IF d.device_id = device_id
                     THEN [d EXCEPT !.active = new_active, !.updated_at = clock]
                     ELSE d : d \in physical_devices}
             /\ UNCHANGED << campaigns, scans, sqlite_sequence, uuid_count >>
             /\ Served("toggle_device_status", req,
                       [status |-> 200, success |-> TRUE,
                        text |-> IF new_active = 1
                                 THEN "Dispositivo activado exitosamente"
                                 ELSE "Dispositivo pausado exitosamente",
                        active |-> new_active])

\* DeviceUpdate bodies: each field absent (None / Null) or given.
DeviceUpdates ==
    [device_name : {None, "Pantalla LED 2"}, device_type : {None},
     location : {None, "Piso 2"}, venue : {None}, description : {None},
     active : {Null, Some(TRUE), Some(FALSE)}]

----------------------------------------------------------------------------
(* GET /api/analytics/dashboard                                            *)

\* A count of campaigns without its WHERE clause.
CountAllCampaigns == Cardinality(campaigns)

\* (SELECT COUNT(*) FROM campaigns WHERE active = 1)
CountActiveCampaigns == Cardinality({c \in campaigns : c.active = 1})

\* (SELECT COUNT(*) FROM physical_devices WHERE active = 1)
CountActiveDevices == Cardinality({d \in physical_devices : d.active = 1})

\* (SELECT COUNT(*) FROM scans)
CountTotalScans == Cardinality(scans)

\* (SELECT COUNT(*) FROM scans WHERE redirect_completed = 1)
CountCompletedRedirects ==
    Cardinality({s \in scans : s.redirect_completed = 1})

\* (SELECT COUNT(DISTINCT client) FROM scans WHERE client != '')
CountClients == Cardinality({s.client : s \in {t \in scans : t.client # ""}})

\* The "stats" object of the response; the other objects of the response
\* are listings that no property here reads.
get_dashboard_analytics ==
    /\ UNCHANGED << tables, uuid_count >>
    /\ Served("dashboard", [x |-> None],
              [status |-> 200, success |-> TRUE, text |-> "",
               stats |-> [active_campaigns |-> CountActiveCampaigns,
                          active_devices |-> CountActiveDevices,
                          total_scans |-> CountTotalScans,
                          completed_redirects |-> CountCompletedRedirects,
                          total_clients |-> CountClients]])

----------------------------------------------------------------------------
(* The requests clients send.                                              *)

TrackRequests(destinations, device_ids) ==
    \E campaign \in CampaignCodes \cup {None, ""},
       destination \in destinations, device_id \in device_ids :
         track_qr_scan(campaign, destination, device_id)

BeaconRequests ==
    \E session_id \in BeaconSessionIds, scan_id \in BeaconScanIds,
       completion_time \in BeaconTimes :
         complete_tracking(session_id, scan_id, completion_time)

CreateCampaignRequests ==
    \E code \in CampaignCodes, client \in Clients,
       destination \in Destinations, active \in BOOLEAN :
         create_campaign(code, client, destination, None, active)

UpdateCampaignRequests(updates) ==
    \E code \in CampaignCodes, u \in updates : update_campaign(code, u)

DeleteCampaignRequests == \E code \in CampaignCodes : delete_campaign(code)

DeactivateCampaignRequests ==
    \E code \in CampaignCodes : deactivate_campaign(code)

DeleteCampaignPermanentlyRequests ==
    \E code \in CampaignCodes : delete_campaign_permanently(code)

CreateDeviceRequests ==
    \E device_id \in DeviceIds, device_name \in DeviceNames \cup {None},
       active \in BOOLEAN : create_device(device_id, device_name, active)

UpdateDeviceRequests ==
    \E device_id \in DeviceIds, u \in DeviceUpdates : update_device(device_id, u)

DeleteDeviceRequests == \E device_id \in DeviceIds : delete_device(device_id)

GetDeviceRequests == \E device_id \in DeviceIds : get_device(device_id)

ToggleDeviceRequests ==
    \E device_id \in DeviceIds : toggle_device_status(device_id)

TrackDestinations == {"", "https://example.org/landing"}
TrackDeviceIds == {"", "pantalla_food_court"}

\* CampaignUpdate bodies that set the destination only.
DestinationUpdates == {u \in CampaignUpdates :
                          u.client = None /\ u.active = Null /\ u.destination # None}

\* The whole API.
Next ==
    \/ Tick
    \/ TrackRequests(TrackDestinations, TrackDeviceIds)
    \/ BeaconRequests
    \/ CreateCampaignRequests
    \/ UpdateCampaignRequests(CampaignUpdates)
    \/ DeleteCampaignRequests
    \/ DeactivateCampaignRequests
    \/ DeleteCampaignPermanentlyRequests
    \/ CreateDeviceRequests
    \/ UpdateDeviceRequests
    \/ DeleteDeviceRequests
    \/ GetDeviceRequests
    \/ ToggleDeviceRequests
    \/ get_dashboard_analytics

Spec == Init /\ [][Next]_vars

\* The scan flow: /track, the beacon, and the campaign requests that change
\* what /track looks up.
NextTracking ==
    \/ Tick
    \/ TrackRequests(TrackDestinations, {"pantalla_food_court"})
    \/ BeaconRequests
    \/ UpdateCampaignRequests(DestinationUpdates)
    \/ DeleteCampaignPermanentlyRequests

SpecTracking == Init /\ [][NextTracking]_vars

\* The campaign requests, and /track for the scans they count.
NextCampaigns ==
    \/ Tick
    \/ TrackRequests({""}, {"pantalla_food_court"})
    \/ CreateCampaignRequests
    \/ UpdateCampaignRequests(CampaignUpdates)
    \/ DeleteCampaignRequests
    \/ DeactivateCampaignRequests
    \/ DeleteCampaignPermanentlyRequests

SpecCampaigns == Init /\ [][NextCampaigns]_vars

\* The device requests, and /track for the scans that name a device.
NextDevices ==
    \/ Tick
    \/ TrackRequests({""}, TrackDeviceIds)
    \/ CreateDeviceRequests
    \/ UpdateDeviceRequests
    \/ DeleteDeviceRequests
    \/ GetDeviceRequests
    \/ ToggleDeviceRequests

SpecDevices == Init /\ [][NextDevices]_vars

\* The dashboard, and the requests that change what it counts.
NextDashboard ==
    \/ Tick
    \/ TrackRequests({""}, {"pantalla_food_court"})
    \/ BeaconRequests
    \/ DeleteCampaignRequests
    \/ DeleteCampaignPermanentlyRequests
    \/ ToggleDeviceRequests
    \/ DeleteDeviceRequests
    \/ get_dashboard_analytics

SpecDashboard == Init /\ [][NextDashboard]_vars

----------------------------------------------------------------------------
(* Two requests in flight.  Each handler is a coroutine of the one event   *)
(* loop that uvicorn.run starts; here a handler is taken statement by      *)
(* statement: its SELECT, then its write and return.                       *)

Task(op, key, u) ==
    [op |-> op, key |-> key, u |-> u, pc |-> "accepted",
     current_active |-> 0, rowcount |-> 0, resp |-> [status |-> 0]]

NoBody == [client |-> None, destination |-> None, description |-> None,
           active |-> Null]

\* A handler body that awaits between its statements gives the loop away.
AfterAwait(i) == 0

\* The with block of a handler has no await: after a statement the loop
\* still runs this coroutine.
AfterStatement(i) == i

\* Coroutine i may take its next step: the loop is free or is running it.
CanRun(i) == i \in DOMAIN loop.tasks /\ loop.running \in {0, i}

Finish(i, resp, rowcount) ==
    loop' = [loop EXCEPT !.running = 0, !.tasks[i].pc = "done",
                         !.tasks[i].resp = resp,
                         !.tasks[i].rowcount = rowcount]

Unserved == UNCHANGED << uuid_count, clock, requests, last >>

\* toggle_device_status: SELECT active FROM physical_devices WHERE device_id = ?
toggle_select(i) ==
    /\ CanRun(i)
    /\ loop.tasks[i].op = "toggle_device_status" /\ loop.tasks[i].pc = "accepted"
    /\ LET device_id == loop.tasks[i].key
       IN  IF ~DeviceExists(device_id)
           THEN Finish(i, Json(FALSE, "Dispositivo no encontrado"), 0)
           ELSE loop' = [loop EXCEPT
                   !.running = AfterStatement(i),
                   !.tasks[i].pc = "selected",
                   !.tasks[i].current_active =
                       (CHOOSE d \in physical_devices :
                           d.device_id = device_id).active]
    /\ UNCHANGED tables /\ Unserved

\* toggle_device_status: UPDATE physical_devices SET active = ?, ...; commit
toggle_update(i) ==
    /\ CanRun(i)
    /\ loop.tasks[i].op = "toggle_device_status" /\ loop.tasks[i].pc = "selected"
    /\ LET device_id == loop.tasks[i].key
           new_active == Toggled(loop.tasks[i].current_active)
       IN  /\ physical_devices' =
                  {IF d.device_id = device_id
                   THEN [d EXCEPT !.active = new_active, !.updated_at = clock]
                   ELSE d : d \in physical_devices}
           /\ Finish(i, [status |-> 200, success |-> TRUE,
                         text |-> IF new_active = 1
                                  THEN "Dispositivo activado exitosamente"
                                  ELSE "Dispositivo pausado exitosamente",
                         active |-> new_active],
                     Cardinality({d \in physical_devices :
                                     d.device_id = device_id}))
    /\ UNCHANGED << campaigns, scans, sqlite_sequence >> /\ Unserved

\* update_campaign: SELECT id FROM campaigns WHERE campaign_code = ? and the
\* building of the SET list
update_select(i) ==
    /\ CanRun(i)
    /\ loop.tasks[i].op = "update_campaign" /\ loop.tasks[i].pc = "accepted"
    /\ IF ~CampaignExists(loop.tasks[i].key)
       THEN Finish(i, Json(FALSE, "Campaña no encontrada"), 0)
       ELSE IF NoCampaignFields(loop.tasks[i].u)
       THEN Finish(i, Json(FALSE, "No hay campos para actualizar"), 0)
       ELSE loop' = [loop EXCEPT !.running = AfterStatement(i),
                                 !.tasks[i].pc = "selected"]
    /\ UNCHANGED tables /\ Unserved

\* update_campaign: UPDATE campaigns SET ... WHERE campaign_code = ?; commit.
\* The handler does not read cursor.rowcount; the model keeps it.
update_write(i) ==
    /\ CanRun(i)
    /\ loop.tasks[i].op = "update_campaign" /\ loop.tasks[i].pc = "selected"
    /\ LET code == loop.tasks[i].key
       IN  /\ campaigns' = {IF c.campaign_code = code
                            THEN ApplyCampaignUpdate(c, loop.tasks[i].u) ELSE c
                            : c \in campaigns}
           /\ Finish(i, Json(TRUE, "Campaña actualizada exitosamente"),
                     Cardinality({c \in campaigns : c.campaign_code = code}))
    /\ UNCHANGED << physical_devices, scans, sqlite_sequence >> /\ Unserved

\* delete_campaign_permanently: SELECT * FROM campaigns WHERE ... and the
\* COUNT(*) of its scans
delete_select(i) ==
    /\ CanRun(i)
    /\ loop.tasks[i].op = "delete_campaign_permanently"
    /\ loop.tasks[i].pc = "accepted"
    /\ IF ~CampaignExists(loop.tasks[i].key)
       THEN Finish(i, Json(FALSE, "Campaña no encontrada"), 0)
       ELSE loop' = [loop EXCEPT !.running = AfterStatement(i),
                                 !.tasks[i].pc = "selected"]
    /\ UNCHANGED tables /\ Unserved

\* delete_campaign_permanently: DELETE FROM campaigns WHERE ...; commit
delete_write(i) ==
    /\ CanRun(i)
    /\ loop.tasks[i].op = "delete_campaign_permanently"
    /\ loop.tasks[i].pc = "selected"
    /\ LET code == loop.tasks[i].key
       IN  /\ campaigns' = {c \in campaigns : c.campaign_code # code}
           /\ Finish(i, Json(TRUE, "Campaña eliminada permanentemente"),
                     Cardinality({c \in campaigns : c.campaign_code = code}))
    /\ UNCHANGED << physical_devices, scans, sqlite_sequence >> /\ Unserved

\* The pairs of requests that arrive together.
RacingRequests ==
    { << Task("toggle_device_status", d, NoBody),
         Task("toggle_device_status", d, NoBody) >> : d \in DeviceIds }
    \cup
    { << Task("update_campaign", p[1], p[2]),
         Task("delete_campaign_permanently", p[1], NoBody) >>
      : p \in CampaignCodes \X (DestinationUpdates \cup {NoBody}) }

\* Devices as earlier toggle-status requests may have left them.
Paused(devices, ids) ==
    {IF d.device_id \in ids THEN [d EXCEPT !.active = 0] ELSE d : d \in devices}

InitConcurrent ==
    /\ \E db \in Databases, ids \in SUBSET DeviceIds, tasks \in RacingRequests :
          /\ campaigns = db.campaigns
          /\ physical_devices = Paused(db.physical_devices, ids)
          /\ scans = db.scans
          /\ sqlite_sequence =
                [campaigns |-> Cardinality(db.campaigns),
                 physical_devices |-> Cardinality(db.physical_devices),
                 scans |-> Cardinality(db.scans)]
          /\ loop = [running |-> 0, tasks |-> tasks,
                     before |-> Paused(db.physical_devices, ids)]
    /\ uuid_count = 0
    /\ clock = 0
    /\ requests = 0
    /\ last = NoRequest

NextConcurrent ==
    \/ Tick
    \/ \E i \in 1..2 : toggle_select(i)
    \/ \E i \in 1..2 : toggle_update(i)
    \/ \E i \in 1..2 : update_select(i)
    \/ \E i \in 1..2 : update_write(i)
    \/ \E i \in 1..2 : delete_select(i)
    \/ \E i \in 1..2 : delete_write(i)

SpecConcurrent == InitConcurrent /\ [][NextConcurrent]_vars

----------------------------------------------------------------------------
(* Properties.                                                             *)

\* The step is the handling of a request of kind op.
Handled(op) == requests' = requests + 1 /\ last'.op = op

\* The response is a JSON object with success: true / with success: false
\* and the given error.
Succeeded(resp) == "success" \in DOMAIN resp /\ resp.success = TRUE
Failed(resp, error) ==
    "success" \in DOMAIN resp /\ resp.success = FALSE /\ resp.text = error

CampaignByCode(rows, code) == CHOOSE c \in rows : c.campaign_code = code
ScanById(rows, id) == CHOOSE s \in rows : s.id = id

\* C1: a GET /track with a non-empty campaign parameter adds exactly one row
\* to scans (campaign_code the parameter, a session_id and id no other row
\* has, redirect_completed 0, duration_seconds NULL), keeps every existing
\* scan row and leaves campaigns and physical_devices as they were.
C1_TrackAddsOneScan ==
    [][ (Handled("track") /\ Truthy(last'.req.campaign)) =>
          /\ campaigns' = campaigns
          /\ physical_devices' = physical_devices
          /\ scans \subseteq scans'
          /\ Cardinality(scans') = Cardinality(scans) + 1
          /\ \A s \in scans' \ scans :
                /\ s.campaign_code = last'.req.campaign
                /\ s.redirect_completed = 0
                /\ s.duration_seconds = Null
                /\ \A t \in scans : t.session_id # s.session_id /\ t.id # s.id
      ]_vars

\* /track has recorded a scan next to an older one, with campaigns and devices
\* in the database.
C1_Witness ==
    /\ last.op = "track" /\ last.resp.status = 200
    /\ Cardinality(scans) = 2
    /\ campaigns # {} /\ physical_devices # {}

\* C2 as stated: whenever /track is asked for a campaign that exists, the
\* destination of the new scan row and the redirect target of the page are
\* the destination configured for that campaign.
C2_ConfiguredDestinationAlways ==
    (last.op = "track" /\ last.resp.status = 200
        /\ CampaignExists(last.req.campaign)) =>
      LET configured == CampaignByCode(campaigns, last.req.campaign).destination
          scan == ScanById(scans, last.resp.beacon.scan_id)
      IN  /\ scan.destination = configured
          /\ last.resp.meta_refresh = configured
          /\ last.resp.location_href = configured

\* C2 (amended): when /track is asked for a campaign that exists, the request
\* has no non-empty destination parameter and the campaign's configured
\* destination is not empty, then the destination of the new scan row and the
\* redirect target of the page are that configured destination.
C2_ConfiguredDestinationWhenNoneGiven ==
    (last.op = "track" /\ last.resp.status = 200
        /\ CampaignExists(last.req.campaign)
        /\ ~Truthy(last.req.destination)
        /\ Truthy(CampaignByCode(campaigns, last.req.campaign).destination)) =>
      LET configured == CampaignByCode(campaigns, last.req.campaign).destination
          scan == ScanById(scans, last.resp.beacon.scan_id)
      IN  /\ scan.destination = configured
          /\ last.resp.meta_refresh = configured
          /\ last.resp.href = configured
          /\ last.resp.location_href = configured

\* /track without a destination parameter has answered for a campaign whose
\* destination was changed by PUT /api/campaigns/{code} beforehand.
C2_Witness ==
    /\ last.op = "track" /\ last.resp.status = 200
    /\ ~Truthy(last.req.destination)
    /\ CampaignExists(last.req.campaign)
    /\ LET c == CampaignByCode(campaigns, last.req.campaign)
       IN  /\ Truthy(c.destination)
           /\ c.updated_at > c.created_at
           /\ last.resp.meta_refresh = c.destination

\* C3: a beacon as the page sends it (the scan's id and session_id, a
\* completion_time ending in "Z") for a scan whose scan_timestamp has no zone
\* is answered success: true and leaves the scan with redirect_completed 1
\* and a duration_seconds.
C3_BeaconCompletesScan ==
    (last.op = "complete"
        /\ last.req.scan_id # Null /\ last.req.completion_time # Null
        /\ last.req.completion_time[1].suffix = "Z"
        /\ \E s \in scans : /\ MatchesScan(s, last.req.scan_id[1],
                                           last.req.session_id)
                            /\ s.scan_timestamp.suffix = "") =>
      /\ Succeeded(last.resp)
      /\ \A s \in scans :
            MatchesScan(s, last.req.scan_id[1], last.req.session_id) =>
               s.redirect_completed = 1 /\ s.duration_seconds # Null

\* C4: a GET /track whose campaign parameter is absent or empty is answered
\* 400 and leaves every table as it was.
C4_MissingCampaignRejected ==
    [][ (Handled("track") /\ ~Truthy(last'.req.campaign)) =>
          /\ last'.resp.status = 400
          /\ UNCHANGED << tables, uuid_count >>
      ]_vars

\* /track has refused a request with an empty campaign parameter while scans
\* holds rows.
C4_Witness ==
    /\ last.op = "track" /\ last.req.campaign = "" /\ last.resp.status = 400
    /\ scans # {}

\* C5: POST /api/track/complete changes a scan row only if its id is the
\* request's scan_id and its session_id the request's session_id; it adds and
\* removes no row and leaves campaigns and physical_devices as they were.
C5_BeaconChangesOnlyItsScan ==
    [][ Handled("complete") =>
          /\ \A s \in scans :
                s \notin scans' =>
                   /\ last'.req.scan_id = Some(s.id)
                   /\ last'.req.session_id = s.session_id
          /\ {s.id : s \in scans'} = {s.id : s \in scans}
          /\ Cardinality(scans') = Cardinality(scans)
          /\ campaigns' = campaigns /\ physical_devices' = physical_devices
      ]_vars

\* A beacon has completed its scan while another scan stays as /track left it.
C5_Witness ==
    /\ last.op = "complete" /\ Succeeded(last.resp)
    /\ \E s, t \in scans :
          /\ last.req.scan_id = Some(s.id) /\ last.req.session_id = s.session_id
          /\ s.redirect_completed = 1
          /\ t.id # s.id /\ t.redirect_completed = 0

\* No two rows of campaigns carry the same campaign_code.
UniqueCampaignCodes ==
    \A a, b \in campaigns : a.campaign_code = b.campaign_code => a = b

\* C6: no two rows of campaigns ever carry the same campaign_code, and
\* POST /api/campaigns with a code that is taken answers success: false,
\* 'El código de campaña ya existe', and leaves campaigns as it was.
C6_CampaignCodesUnique ==
    /\ []UniqueCampaignCodes
    /\ [][ (Handled("create_campaign")
              /\ CampaignExists(last'.req.campaign_code)) =>
             /\ Failed(last'.resp, "El código de campaña ya existe")
             /\ campaigns' = campaigns
         ]_vars

\* POST /api/campaigns has refused a code that is taken, after the campaign of
\* that code was deleted permanently and created again.
C6_Witness ==
    /\ last.op = "create_campaign"
    /\ Failed(last.resp, "El código de campaña ya existe")
    /\ CampaignExists(last.req.campaign_code)
    /\ Cardinality(campaigns) >= 2

\* No two rows of physical_devices carry the same device_id.
UniqueDeviceIds ==
    \A a, b \in physical_devices : a.device_id = b.device_id => a = b

\* C7: no two rows of physical_devices ever carry the same device_id, and
\* POST /api/devices with a device_id that is taken answers success: false,
\* 'El ID del dispositivo ya existe', and leaves physical_devices as it was.
C7_DeviceIdsUnique ==
    /\ []UniqueDeviceIds
    /\ [][ (Handled("create_device") /\ DeviceExists(last'.req.device_id)) =>
             /\ Failed(last'.resp, "El ID del dispositivo ya existe")
             /\ physical_devices' = physical_devices
         ]_vars

\* POST /api/devices has refused a device_id that is taken.
C7_Witness ==
    /\ last.op = "create_device"
    /\ Failed(last.resp, "El ID del dispositivo ya existe")
    /\ DeviceExists(last.req.device_id)
    /\ Cardinality(physical_devices) >= 2

\* The row with every column but active and updated_at.
CampaignKept(c) == [c EXCEPT !.active = 0, !.updated_at = 0]

\* C8: DELETE /api/campaigns/{code} for a campaign that exists keeps its row
\* with active 0 and every other column but updated_at as it was, keeps all
\* other campaigns and all scans, and answers success: true; for a code with
\* no campaign it answers 'Campaña no encontrada' and changes no table.
C8_DeleteCampaignDeactivates ==
    [][ Handled("delete_campaign") =>
          LET code == last'.req.campaign_code
          IN  IF CampaignExists(code)
              THEN /\ Succeeded(last'.resp)
                   /\ Cardinality(campaigns') = Cardinality(campaigns)
                   /\ \A c \in campaigns :
                         IF c.campaign_code = code
                         THEN \E d \in campaigns' :
                                 /\ d.active = 0
                                 /\ CampaignKept(d) = CampaignKept(c)
                         ELSE c \in campaigns'
                   /\ scans' = scans
                   /\ physical_devices' = physical_devices
              ELSE /\ Failed(last'.resp, "Campaña no encontrada")
                   /\ UNCHANGED tables
      ]_vars

\* DELETE /api/campaigns/{code} has deactivated, at a later reading of the
\* clock than its creation, a campaign that has scans.
C8_Witness ==
    /\ last.op = "delete_campaign" /\ Succeeded(last.resp)
    /\ \E c \in campaigns :
          /\ c.campaign_code = last.req.campaign_code
          /\ c.active = 0 /\ c.updated_at > c.created_at
    /\ \E s \in scans : s.campaign_code = last.req.campaign_code

\* C9: after PATCH /api/campaigns/{code}/deactivate for a campaign that
\* exists, its row is in campaigns with active 0 and the answer is success:
\* true; for a code with no campaign the answer is 'Campaña no encontrada'.
C9_DeactivateCampaign ==
    last.op = "deactivate_campaign" =>
       IF CampaignExists(last.req.campaign_code)
       THEN /\ CampaignByCode(campaigns, last.req.campaign_code).active = 0
            /\ Succeeded(last.resp)
       ELSE Failed(last.resp, "Campaña no encontrada")

\* C10: DELETE /api/campaigns/{code}/delete-permanently for a campaign that
\* exists removes its row and no other, keeps all scans, and answers with
\* affected_scans the number of scans of that code; for a code with no
\* campaign it answers 'Campaña no encontrada' and changes no table.
C10_DeletePermanently ==
    [][ Handled("delete_campaign_permanently") =>
          LET code == last'.req.campaign_code
          IN  IF CampaignExists(code)
              THEN /\ Succeeded(last'.resp)
                   /\ campaigns' = {c \in campaigns : c.campaign_code # code}
                   /\ scans' = scans
                   /\ physical_devices' = physical_devices
                   /\ last'.resp.affected_scans =
                         Cardinality({s \in scans' : s.campaign_code = code})
              ELSE /\ Failed(last'.resp, "Campaña no encontrada")
                   /\ UNCHANGED tables
      ]_vars

\* A campaign with one scan has been deleted permanently while the database
\* holds two scans and other campaigns.
C10_Witness ==
    /\ last.op = "delete_campaign_permanently" /\ Succeeded(last.resp)
    /\ last.resp.affected_scans = 1
    /\ Cardinality(scans) = 2
    /\ ~CampaignExists(last.req.campaign_code)
    /\ campaigns # {}

\* C11: DELETE /api/devices/{device_id} for a device that exists leaves no
\* row of that device_id, keeps every other device and every scan as it was
\* and answers success: true; for an unknown device_id it answers
\* 'Dispositivo no encontrado' and changes no table.  GET
\* /api/devices/{device_id} answers 'Dispositivo no encontrado' exactly when
\* no row has that device_id.
C11_DeleteDeviceRemoves ==
    /\ [][ Handled("delete_device") =>
             LET device_id == last'.req.device_id
             IN  IF DeviceExists(device_id)
                 THEN /\ Succeeded(last'.resp)
                      /\ \A d \in physical_devices' : d.device_id # device_id
                      /\ \A d \in physical_devices :
                            d.device_id # device_id => d \in physical_devices'
                      /\ physical_devices' \subseteq physical_devices
                      /\ scans' = scans /\ campaigns' = campaigns
                 ELSE /\ Failed(last'.resp, "Dispositivo no encontrado")
                      /\ UNCHANGED tables
         ]_vars
    /\ [][ (Handled("get_device") /\ last.op = "delete_device"
              /\ Succeeded(last.resp)
              /\ last'.req.device_id = last.req.device_id) =>
             Failed(last'.resp, "Dispositivo no encontrado")
         ]_vars
    /\ [](last.op = "get_device" =>
            (Failed(last.resp, "Dispositivo no encontrado")
               <=> ~DeviceExists(last.req.device_id)))

\* GET /api/devices/{device_id} has answered 'Dispositivo no encontrado' for a
\* device of the example data that DELETE removed, while its scan and the
\* other devices are still there.
C11_Witness ==
    /\ last.op = "get_device"
    /\ Failed(last.resp, "Dispositivo no encontrado")
    /\ last.req.device_id = "pantalla_food_court"
    /\ Cardinality(physical_devices) = 2
    /\ \E s \in scans : s.device_id = "pantalla_food_court"

DeviceById(rows, device_id) == CHOOSE d \in rows : d.device_id = device_id

\* C12: PATCH /api/devices/{device_id}/toggle-status on a device that exists
\* turns active 1 into 0 and 0 into 1, answers with the new value, and changes
\* no other column but updated_at and no other device; a second toggle of the
\* same device right after the first brings active back to the value it had
\* before the first.
C12_ToggleAlternates ==
    [][ (Handled("toggle_device_status")
           /\ DeviceExists(last'.req.device_id)) =>
          LET device_id == last'.req.device_id
              before == DeviceById(physical_devices, device_id)
              after == DeviceById(physical_devices', device_id)
          IN  /\ Succeeded(last'.resp)
              /\ before.active \in {0, 1}
              /\ after.active = 1 - before.active
              /\ last'.resp.active = after.active
              /\ after = [before EXCEPT !.active = after.active,
                                        !.updated_at = after.updated_at]
              /\ \A d \in physical_devices :
                    d.device_id # device_id => d \in physical_devices'
              /\ Cardinality(physical_devices') = Cardinality(physical_devices)
              /\ (last.op = "toggle_device_status" /\ Succeeded(last.resp)
                    /\ last.req.device_id = device_id) =>
                     /\ before.active = last.resp.active
                     /\ after.active = 1 - last.resp.active
      ]_vars

\* Two toggles in a row of a device of the example data (active 1) have left
\* it with active 1.
C12_Witness ==
    /\ requests = 2
    /\ last.op = "toggle_device_status" /\ Succeeded(last.resp)
    /\ last.resp.active = 1
    /\ physical_devices # example_devices
    /\ {[d EXCEPT !.updated_at = 0] : d \in physical_devices} = example_devices

\* C13: PUT /api/campaigns/{code} for a campaign that exists, with at least
\* one field given, sets each given field to its value, keeps id,
\* campaign_code, created_at and every field not given, keeps every other
\* campaign, every scan and every device, and answers success: true.  For a
\* code with no campaign it answers 'Campaña no encontrada', for a body with
\* no field 'No hay campos para actualizar', and changes no table.
C13_UpdateCampaignFrame ==
    [][ Handled("update_campaign") =>
          LET code == last'.req.campaign_code
              u == last'.req.campaign_update
              none_given == /\ u.client = None /\ u.destination = None
                            /\ u.description = None /\ u.active = Null
          IN  IF ~CampaignExists(code)
              THEN /\ Failed(last'.resp, "Campaña no encontrada")
                   /\ UNCHANGED tables
              ELSE IF none_given
              THEN /\ Failed(last'.resp, "No hay campos para actualizar")
                   /\ UNCHANGED tables
              ELSE LET before == CampaignByCode(campaigns, code)
                       after == CampaignByCode(campaigns', code)
                   IN  /\ Succeeded(last'.resp)
                       /\ \E c \in campaigns' : c.campaign_code = code
                       /\ after.id = before.id
                       /\ after.campaign_code = before.campaign_code
                       /\ after.created_at = before.created_at
                       /\ after.client =
                             IF u.client = None THEN before.client ELSE u.client
                       /\ after.destination =
                             IF u.destination = None THEN before.destination
                             ELSE u.destination
                       /\ after.description =
                             IF u.description = None THEN before.description
                             ELSE u.description
                       /\ after.active =
                             IF u.active = Null THEN before.active
                             ELSE IF u.active[1] THEN 1 ELSE 0
                       /\ \A c \in campaigns :
                             c.campaign_code # code => c \in campaigns'
                       /\ Cardinality(campaigns') = Cardinality(campaigns)
                       /\ scans' = scans
                       /\ physical_devices' = physical_devices
      ]_vars

\* PUT /api/campaigns/{code} has emptied the destination of a campaign at a
\* later reading of the clock than its creation and left its client, its
\* description and its active flag as they were.
C13_Witness ==
    /\ last.op = "update_campaign" /\ Succeeded(last.resp)
    /\ last.req.campaign_update.destination = ""
    /\ last.req.campaign_update.client = None
    /\ last.req.campaign_update.active = Null
    /\ \E c \in campaigns :
          /\ c.campaign_code = last.req.campaign_code
          /\ c.destination = "" /\ c.client = "Nike" /\ c.active = 1
          /\ c.description = "Promoción de verano 2024"
          /\ c.updated_at > c.created_at
    /\ Cardinality(campaigns) = 3

\* C14: the stats of GET /api/analytics/dashboard are: total_scans the number
\* of scan rows, completed_redirects the number of scan rows with
\* redirect_completed 1 and at most total_scans, active_campaigns the number
\* of campaigns with active 1 and active_devices the number of devices with
\* active 1.
C14_DashboardStats ==
    last.op = "dashboard" =>
       LET stats == last.resp.stats
       IN  /\ stats.total_scans = Cardinality({s.id : s \in scans})
           /\ stats.completed_redirects =
                 Cardinality({s.id : s \in {t \in scans :
                                               t.redirect_completed = 1}})
           /\ stats.completed_redirects <= stats.total_scans
           /\ stats.active_campaigns =
                 Cardinality(campaigns)
                    - Cardinality({c \in campaigns : c.active # 1})
           /\ stats.active_devices =
                 Cardinality(physical_devices)
                    - Cardinality({d \in physical_devices : d.active # 1})

\* The dashboard has been read after a beacon completed the one scan there is.
C14_Witness ==
    /\ last.op = "dashboard"
    /\ last.resp.stats.total_scans = 1
    /\ last.resp.stats.completed_redirects = 1
    /\ last.resp.stats.active_campaigns = 3

\* The dashboard has been read after a campaign was deactivated.
C14_InactiveWitness ==
    /\ last.op = "dashboard"
    /\ last.resp.stats.active_campaigns = 2
    /\ Cardinality(campaigns) = 3

\* Both ISO strings carry a zone designator or neither does.
Comparable(a, b) == (a.suffix = "") <=> (b.suffix = "")

\* C15: when POST /api/track/complete matches a scan (id and session_id),
\* then with a completion_time that is comparable with the scan's
\* scan_timestamp the scan gets duration_seconds = completion_time -
\* scan_timestamp in seconds, with no completion_time it gets
\* duration_seconds NULL, and in both cases redirect_completed 1 and the
\* answer success: true.
C15_DurationComputed ==
    [][ (Handled("complete") /\ last'.req.scan_id # Null
           /\ \E s \in scans : MatchesScan(s, last'.req.scan_id[1],
                                           last'.req.session_id)) =>
          LET scan_id == last'.req.scan_id[1]
              completion_time == last'.req.completion_time
              before == ScanById(scans, scan_id)
              after == ScanById(scans', scan_id)
          IN  IF completion_time = Null
              THEN /\ after.duration_seconds = Null
                   /\ after.redirect_completed = 1
                   /\ Succeeded(last'.resp)
              ELSE Comparable(completion_time[1], before.scan_timestamp) =>
                   /\ after.duration_seconds =
                         Some(completion_time[1].secs
                                - before.scan_timestamp.secs)
                   /\ after.redirect_completed = 1
                   /\ Succeeded(last'.resp)
      ]_vars

\* A beacon with a completion_time without zone has completed a scan that
\* /track recorded at clock reading 1: its duration is 3 seconds.
C15_Witness ==
    /\ last.op = "complete" /\ Succeeded(last.resp)
    /\ last.req.completion_time = Some(IsoString(4, ""))
    /\ \E s \in scans :
          /\ last.req.scan_id = Some(s.id) /\ last.req.session_id = s.session_id
          /\ s.scan_timestamp = IsoString(1, "")
          /\ s.redirect_completed = 1
          /\ s.duration_seconds = Some(3)

\* A beacon without completion_time has completed a scan with a NULL duration.
C15_AbsentTimeWitness ==
    /\ last.op = "complete" /\ Succeeded(last.resp)
    /\ last.req.completion_time = Null
    /\ \E s \in scans :
          /\ last.req.scan_id = Some(s.id) /\ last.req.session_id = s.session_id
          /\ s.redirect_completed = 1 /\ s.duration_seconds = Null

AllDone == \A i \in DOMAIN loop.tasks : loop.tasks[i].pc = "done"

\* C16: of two toggle-status requests for the same device that are in flight
\* together and both succeed, the device's active flag ends at the value it
\* had before them; and a PUT /api/campaigns/{code} in flight together with
\* a permanent delete of the campaign answers 'Campaña actualizada
\* exitosamente' only if its UPDATE found the campaign's row.
C16_NoLostUpdate ==
    /\ (AllDone /\ loop.tasks # << >>
          /\ \A i \in DOMAIN loop.tasks :
                /\ loop.tasks[i].op = "toggle_device_status"
                /\ Succeeded(loop.tasks[i].resp)) =>
         DeviceById(physical_devices, loop.tasks[1].key).active
            = DeviceById(loop.before, loop.tasks[1].key).active
    /\ \A i \in DOMAIN loop.tasks :
          (loop.tasks[i].op = "update_campaign" /\ loop.tasks[i].pc = "done"
             /\ Succeeded(loop.tasks[i].resp)) =>
            loop.tasks[i].rowcount = 1

\* Two toggles of a paused device have both answered, the first with active 1
\* and the second with active 0, and the device is paused again.
C16_Witness ==
    /\ AllDone /\ loop.tasks # << >>
    /\ loop.tasks[1].op = "toggle_device_status"
    /\ Succeeded(loop.tasks[1].resp) /\ Succeeded(loop.tasks[2].resp)
    /\ loop.tasks[1].resp.active # loop.tasks[2].resp.active
    /\ DeviceById(loop.before, loop.tasks[1].key).active = 0
    /\ DeviceById(physical_devices, loop.tasks[1].key).active = 0

\* The PUT has updated the campaign and the permanent delete has then removed
\* it.
C16_UpdateThenDeleteWitness ==
    /\ AllDone /\ loop.tasks # << >>
    /\ loop.tasks[1].op = "update_campaign"
    /\ Succeeded(loop.tasks[1].resp) /\ loop.tasks[1].rowcount = 1
    /\ Succeeded(loop.tasks[2].resp)
    /\ ~CampaignExists(loop.tasks[1].key)

\* The permanent delete has removed the campaign and the PUT has then
\* answered 'Campaña no encontrada'.
C16_DeleteThenUpdateWitness ==
    /\ AllDone /\ loop.tasks # << >>
    /\ loop.tasks[1].op = "update_campaign"
    /\ Failed(loop.tasks[1].resp, "Campaña no encontrada")
    /\ Succeeded(loop.tasks[2].resp)
====
